---- MODULE Spec2Model ----
(***************************************************************************)
(* A model of the Merkle tree of snarkyjs-merkle-tree.                     *)
(*                                                                         *)
(* Two versions of the class MerkleTree live in the repository:            *)
(*   src/src/MerkleTree.ts  any number of leaves, no update      (Spec)    *)
(*   src/unnamed/part_003   power-of-two check, update()      (SpecSized)  *)
(* Both keep the tree in  this.tree = { leaves, levels }  and share        *)
(* makeTree, calculateNextLevel, getProof, getMerkleRoot, validateProof.   *)
(*                                                                         *)
(* Field values are terms: a raw field element is <<"f", n>>, the value    *)
(* of Poseidon.hash(xs) is <<"h", xs>>.  Distinct terms are distinct       *)
(* values, so the oracle is injective (collision free).  JavaScript's      *)
(* undefined (an array hole, a read past the end) is the term Undef.       *)
(***************************************************************************)
EXTENDS Integers, Sequences, FiniteSets, TLC

VARIABLES
    leaves,      \* this.tree.leaves
    levels,      \* this.tree.levels, root level first
    leafRow,     \* position in levels of the array object that IS leaves (0: none)
    options,     \* this.options.hashLeaves: "true", "false"; "unset" before the constructor ran
    raw,         \* history: the raw items handed to the constructor and appendLeaves
    updates,     \* history: number of update calls made so far
    ret          \* the last call: its name, arguments, outcome

vars == <<leaves, levels, leafRow, options, raw, updates, ret>>

----------------------------------------------------------------------------
(* Bounds of the model *)

MaxLeaves == 4      \* items handed to the constructor and appendLeaves, in total
MaxAppend == 2      \* items handed to one appendLeaves call (Spec)
MaxAppendSized == 3 \* items handed to one appendLeaves call (SpecSized)
MaxUpdates == 1     \* update calls in one behaviour

----------------------------------------------------------------------------
(* Values *)

F(n) == <<"f", n>>

Undef == <<"undef">>

\* the raw items callers hand in: Field(0), Field(1)
Items == {F(0), F(1)}

\* Poseidon.hash(xs) for an array xs of Fields
Hash(xs) == <<"h", xs>>

\* Poseidon.hash reads every element of its argument as a Field: undefined
\* is none, and the call throws.
HashThrows(xs) == \E k \in 1..Len(xs) : xs[k] = Undef

\* hash ? Poseidon.hash([value]) : value
Digest(value, hash) == IF hash THEN Hash(<<value>>) ELSE value

\* a parameter declared  hash: boolean = true : the default applies when the
\* argument is omitted (undefined)
HashArgs == {"undefined", "true", "false"}

HashParam(hash) == IF hash = "undefined" THEN TRUE ELSE hash = "true"

----------------------------------------------------------------------------
(* JavaScript arrays, indexed from 0 *)

\* arr[i]: undefined outside the array
Get(arr, i) == IF i >= 0 /\ i < Len(arr) THEN arr[i + 1] ELSE Undef

\* arr[i] = v: past the end the array grows and the gap is holes; a negative
\* i sets a property of the object and no element
Put(arr, i, v) ==
    IF i < 0 THEN arr
    ELSE IF i < Len(arr) THEN [arr EXCEPT ![i + 1] = v]
    ELSE [k \in 1..(i + 1) |-> IF k <= Len(arr) THEN arr[k]
                               ELSE IF k = i + 1 THEN v ELSE Undef]

\* Array.prototype.reverse
Reverse(s) == [k \in 1..Len(s) |-> s[Len(s) + 1 - k]]

\* all sequences over S of length 0..n
SeqsUpTo(S, n) == UNION {[1..k -> S] : k \in 0..n}

----------------------------------------------------------------------------
(* makeTree / calculateNextLevel *)

\* calculateNextLevel that hashes an odd ending node with itself
calculateNextLevelSelfPair(topLevel) ==
    LET topLevelCount == Len(topLevel)
    IN  [k \in 1..((topLevelCount + 1) \div 2) |->
            IF 2 * k <= topLevelCount
            THEN Hash(<<topLevel[2 * k - 1], topLevel[2 * k]>>)
            ELSE Hash(<<topLevel[2 * k - 1], topLevel[2 * k - 1]>>)]

\* calculateNextLevel: pairs are hashed, an odd ending node is pushed as is
calculateNextLevel(topLevel) ==
    LET topLevelCount == Len(topLevel)
    IN  [k \in 1..((topLevelCount + 1) \div 2) |->
            IF 2 * k <= topLevelCount
            THEN Hash(<<topLevel[2 * k - 1], topLevel[2 * k]>>)
            ELSE topLevel[2 * k - 1]]

\* some pair of topLevel holds undefined: Poseidon.hash throws in the loop
NextLevelThrows(topLevel) ==
    \E k \in 1..(Len(topLevel) \div 2) :
        HashThrows(<<topLevel[2 * k - 1], topLevel[2 * k]>>)

\* the while loop of makeTree, from levels lv; it ends when the top level has
\* one node, or when calculateNextLevel throws (threw) and leaves lv as built
RECURSIVE BuildLevels(_)
BuildLevels(lv) ==
    IF Len(lv[1]) > 1
    THEN IF NextLevelThrows(lv[1])
         THEN [levels |-> lv, threw |-> TRUE]
         ELSE BuildLevels(<<calculateNextLevel(lv[1])>> \o lv)
    ELSE [levels |-> lv, threw |-> FALSE]

\* makeTree on leaf array lf, with levels lv before the call: the new levels,
\* the row of levels that is the leaf array, and whether it threw
makeTree(lf, lv, row) ==
    IF Len(lf) > 0
    THEN LET b == BuildLevels(<<lf>>)
         IN  [levels |-> b.levels, leafRow |-> Len(b.levels), threw |-> b.threw]
    ELSE [levels |-> lv, leafRow |-> row, threw |-> FALSE]

----------------------------------------------------------------------------
(* getMerkleRoot, getProof, validateProof *)

\* getMerkleRoot: undefined when there are no levels
getMerkleRoot(lv) == IF Len(lv) = 0 THEN Undef ELSE Get(lv[1], 0)

\* ProofLoop that skips the last node of every row, odd or even
RECURSIVE ProofLoopSkipLast(_, _, _, _)
ProofLoopSkipLast(lv, x, index, path) ==
    IF x <= 1 THEN path
    ELSE LET isEvenNode == index % 2 = 0
             siblingIndex == IF isEvenNode THEN index + 1 ELSE index - 1
         IN  IF index = Len(lv[x]) - 1
             THEN ProofLoopSkipLast(lv, x - 1, index \div 2, path)
             ELSE ProofLoopSkipLast(lv, x - 1, index \div 2,
                      Append(path,
                             [direction |-> IF isEvenNode THEN F(0) ELSE F(1),
                              hash |-> Get(lv[x], siblingIndex)]))

\* ProofLoop that skips no row: a promoted node gets an element as well
RECURSIVE ProofLoopNoSkip(_, _, _, _)
ProofLoopNoSkip(lv, x, index, path) ==
    IF x <= 1 THEN path
    ELSE LET isEvenNode == index % 2 = 0
             siblingIndex == IF isEvenNode THEN index + 1 ELSE index - 1
         IN  ProofLoopNoSkip(lv, x - 1, index \div 2,
                 Append(path,
                        [direction |-> IF isEvenNode THEN F(0) ELSE F(1),
                         hash |-> Get(lv[x], siblingIndex)]))

\* ProofLoop that takes the sibling of an odd node from the right as well
RECURSIVE ProofLoopRightSibling(_, _, _, _)
ProofLoopRightSibling(lv, x, index, path) ==
    IF x <= 1 THEN path
    ELSE LET currentLevelNodeCount == Len(lv[x])
             isEvenNode == index % 2 = 0
         IN  IF index = currentLevelNodeCount - 1 /\ currentLevelNodeCount % 2 = 1
             THEN ProofLoopRightSibling(lv, x - 1, index \div 2, path)
             ELSE ProofLoopRightSibling(lv, x - 1, index \div 2,
                      Append(path,
                             [direction |-> IF isEvenNode THEN F(0) ELSE F(1),
                              hash |-> Get(lv[x], index + 1)]))

\* the for loop of getProof, at row x (x = 1 is the root level) with the
\* current index and the path pushed so far
RECURSIVE ProofLoop(_, _, _, _)
ProofLoop(lv, x, index, path) ==
    IF x <= 1 THEN path
    ELSE LET currentLevelNodeCount == Len(lv[x])
             isEvenNode == index % 2 = 0
             siblingIndex == IF isEvenNode THEN index + 1 ELSE index - 1
         IN  IF index = currentLevelNodeCount - 1 /\ currentLevelNodeCount % 2 = 1
             THEN ProofLoop(lv, x - 1, index \div 2, path)
             ELSE ProofLoop(lv, x - 1, index \div 2,
                      Append(path,
                             [direction |-> IF isEvenNode THEN F(0) ELSE F(1),
                              hash |-> Get(lv[x], siblingIndex)]))

\* getProof throws when there are no levels: levels[-1] is undefined and its
\* .length is read
getProofThrows(lv) == Len(lv) = 0

\* getProof(index) on levels lv: [] for an index outside the last level
getProof(lv, index) ==
    IF index < 0 \/ index > Len(lv[Len(lv)]) - 1
    THEN <<>>
    ELSE ProofLoop(lv, Len(lv), index, <<>>)

\* ProofStep with the two directions exchanged
ProofStepSwapped(el, proofHash) ==
    LET p1 == IF el.direction = F(0) THEN Hash(<<el.hash, proofHash>>) ELSE proofHash
    IN  IF el.direction = F(1) THEN Hash(<<p1, el.hash>>) ELSE p1

\* ProofStep whose second Circuit.if is the else of the first
ProofStepElse(el, proofHash) ==
    IF el.direction = F(1)
    THEN Hash(<<el.hash, proofHash>>)
    ELSE Hash(<<proofHash, el.hash>>)

\* one round of validateProof's loop: two Circuit.if in sequence
ProofStep(el, proofHash) ==
    LET p1 == IF el.direction = F(1) THEN Hash(<<el.hash, proofHash>>) ELSE proofHash
    IN  IF el.direction = F(0) THEN Hash(<<p1, el.hash>>) ELSE p1

\* proofHash after the elements x .. of merklePath
RECURSIVE ProofHash(_, _, _)
ProofHash(merklePath, x, proofHash) ==
    IF x > Len(merklePath) THEN proofHash
    ELSE ProofHash(merklePath, x + 1, ProofStep(merklePath[x], proofHash))

\* both arguments of Circuit.if are evaluated, so Poseidon.hash is called on
\* every element whatever its direction; equals(undefined) throws as well
validateProofThrows(merklePath, leafHash, merkleRoot) ==
    \/ leafHash = Undef
    \/ merkleRoot = Undef
    \/ \E x \in 1..Len(merklePath) : merklePath[x].hash = Undef

\* validateProof that takes every empty path for valid
validateProofEmptyValid(merklePath, leafHash, merkleRoot) ==
    \/ Len(merklePath) = 0
    \/ ProofHash(merklePath, 1, leafHash) = merkleRoot

\* validateProof whose loop starts at the second element
validateProofSkipFirst(merklePath, leafHash, merkleRoot) ==
    ProofHash(merklePath, 2, leafHash) = merkleRoot

\* validateProof(merklePath, leafHash, merkleRoot)
validateProof(merklePath, leafHash, merkleRoot) ==
    ProofHash(merklePath, 1, leafHash) = merkleRoot

----------------------------------------------------------------------------
(* State *)

\* The calls that only read the tree. They change nothing but ret, so the
\* calls after a query lead where they lead without it: a behaviour is a
\* sequence of constructor, appendLeaves and update calls, and a query is
\* taken on the tree they left. Every tree and every query result on it is
\* reached this way.
Queries == {"getMerkleRoot", "getProof", "validateProof"}

NoQuery == ret.op \notin Queries

\* the field initialisers of the constructor, before it calls appendLeaves
Init ==
    /\ leaves = <<>>
    /\ levels = <<>>
    /\ leafRow = 0
    /\ options = "unset"
    /\ raw = <<>>
    /\ updates = 0
    /\ ret = [op |-> "none", args |-> <<>>, threw |-> FALSE, value |-> <<>>]

\* leaves.forEach(value => this.tree.leaves.push(hash ? Poseidon.hash([value]) : value))
PushLeaves(lf, items, hash) ==
    lf \o [k \in 1..Len(items) |-> Digest(items[k], hash)]

\* the body of appendLeaves(items, hash) of src/src/MerkleTree.ts
DoAppend(op, items, hash, hashLeaves) ==
    LET lf == PushLeaves(leaves, items, HashParam(hash))
        t == makeTree(lf, levels, leafRow)
    IN  /\ leaves' = lf
        /\ levels' = t.levels
        /\ leafRow' = t.leafRow
        /\ options' = hashLeaves
        /\ raw' = raw \o items
        /\ ret' = [op |-> op, args |-> <<hash>>,
                   threw |-> t.threw, value |-> <<>>]
        /\ UNCHANGED updates

\* new MerkleTree(items, {hashLeaves}) of src/src/MerkleTree.ts
Constructor ==
    /\ NoQuery
    /\ options = "unset"
    /\ \E items \in SeqsUpTo(Items, MaxLeaves), hashLeaves \in {"true", "false"} :
          DoAppend("constructor", items, hashLeaves, hashLeaves)

\* tree.appendLeaves(items, hash) of src/src/MerkleTree.ts
AppendLeaves ==
    /\ NoQuery
    /\ options # "unset"
    /\ \E items \in SeqsUpTo(Items, MaxAppend), hash \in HashArgs :
          /\ Len(raw) + Len(items) <= MaxLeaves
          /\ DoAppend("appendLeaves", items, hash, options)

\* tree.getMerkleRoot()
GetMerkleRoot ==
    /\ NoQuery
    /\ options # "unset"
    /\ ret' = [op |-> "getMerkleRoot", args |-> <<>>, threw |-> FALSE,
               value |-> <<getMerkleRoot(levels)>>]
    /\ UNCHANGED <<leaves, levels, leafRow, options, raw, updates>>

\* tree.getProof(index)
GetProof ==
    /\ NoQuery
    /\ options # "unset"
    /\ \E index \in -1..(Len(leaves) + 1) :
          ret' = [op |-> "getProof", args |-> <<index>>,
                  threw |-> getProofThrows(levels),
                  value |-> IF getProofThrows(levels) THEN <<>>
                            ELSE getProof(levels, index)]
    /\ UNCHANGED <<leaves, levels, leafRow, options, raw, updates>>

\* every hash value stored in the tree
Nodes(lv) == UNION {{lv[k][i] : i \in 1..Len(lv[k])} : k \in 1..Len(lv)}

\* values a caller may present as a leaf hash or as a sibling hash
Candidates(lv) == Items \cup {Hash(<<v>>) : v \in Items} \cup Nodes(lv)

\* path with the sibling hash of element k replaced by v
WithSibling(path, k, v) == [path EXCEPT ![k].hash = v]

\* ret of a validateProof call
ValidateRet(index, kind, p, l, root) ==
    [op |-> "validateProof", args |-> <<index, kind>>,
     threw |-> validateProofThrows(p, l, root),
     value |-> IF validateProofThrows(p, l, root) THEN <<>>
               ELSE <<validateProof(p, l, root)>>]

\* MerkleTree.validateProof(path, leafHash, tree.getMerkleRoot()) on the path of
\* a leaf: as produced ("path"), with another leaf hash ("leaf"), or with one
\* sibling hash replaced ("sibling")
ValidateProof ==
    /\ NoQuery
    /\ options # "unset"
    /\ Len(levels) > 0
    /\ \E index \in 0..(Len(leaves) - 1) :
          LET path == getProof(levels, index)
              root == getMerkleRoot(levels)
              leafHash == Get(leaves, index)
          IN  \/ ret' = ValidateRet(index, "path", path, leafHash, root)
              \/ \E h \in Items \cup {Hash(<<v>>) : v \in Items} :
                    /\ h # leafHash
                    /\ ret' = ValidateRet(index, "leaf", path, h, root)
              \/ \E k \in 1..Len(path), h \in Items :
                    /\ h # path[k].hash
                    /\ ret' = ValidateRet(index, "sibling",
                                          WithSibling(path, k, h), leafHash, root)
    /\ UNCHANGED <<leaves, levels, leafRow, options, raw, updates>>

Next == Constructor \/ AppendLeaves \/ GetMerkleRoot \/ GetProof \/ ValidateProof

Spec == Init /\ [][Next]_vars

----------------------------------------------------------------------------
(* Claims on src/src/MerkleTree.ts (Spec) *)

ValidIndices == 0..(Len(leaves) - 1)

\* validateProof(getProof(i), leafHash, getMerkleRoot()) returns true
Verifies(lv, i, leafHash) ==
    LET path == getProof(lv, i)
        root == getMerkleRoot(lv)
    IN  /\ ~validateProofThrows(path, leafHash, root)
        /\ validateProof(path, leafHash, root)

\* leaf i is promoted at some level: its ancestor at row x is the last node
\* of an odd row
RECURSIVE Promoted(_, _, _)
Promoted(lv, x, index) ==
    IF x <= 1 THEN FALSE
    ELSE \/ index = Len(lv[x]) - 1 /\ Len(lv[x]) % 2 = 1
         \/ Promoted(lv, x - 1, index \div 2)

\* C1: round trip. In every tree of n >= 1 leaves and for every leaf index
\* 0 <= i < n, validateProof(getProof(i), leaves[i], getMerkleRoot()) is true.
C1_RoundTrip ==
    Len(leaves) >= 1 =>
        \A i \in ValidIndices : Verifies(levels, i, Get(leaves, i))

\* C1 witness: validateProof has returned true for the path of a leaf whose
\* ancestor is promoted, in a tree whose leaf count is no power of two.
C1_Witness ==
    /\ ret.op = "validateProof"
    /\ ret.args[2] = "path"
    /\ ret.value = <<TRUE>>
    /\ Len(leaves) = 3
    /\ Promoted(levels, Len(levels), ret.args[1])

\* the node at row k (1 is the root level), position i (from 1) follows from
\* its children in row k + 1: their hash, or the single child when it is the
\* last node of an odd row
NodeRule(lv, k, i) ==
    /\ 2 * i - 1 <= Len(lv[k + 1])
    /\ IF 2 * i <= Len(lv[k + 1])
       THEN lv[k][i] = Hash(<<lv[k + 1][2 * i - 1], lv[k + 1][2 * i]>>)
       ELSE lv[k][i] = lv[k + 1][2 * i - 1]

\* C3: node invariant. After construction and after every appendLeaves, every
\* node above the leaf level is the oracle of its two children, or its only
\* child unchanged when that child ends an odd level.
C3_NodeInvariant ==
    \A k \in 1..(Len(levels) - 1) : \A i \in 1..Len(levels[k]) :
        NodeRule(levels, k, i)

\* C3 witness: appendLeaves has made the three-leaf tree [a, b, c], whose
\* level 1 is [oracle(a, b), c] and whose root is oracle(oracle(a, b), c).
C3_Witness ==
    /\ ret.op = "appendLeaves"
    /\ Len(leaves) = 3
    /\ Len(levels) = 3
    /\ levels[2] = <<Hash(<<leaves[1], leaves[2]>>), leaves[3]>>
    /\ levels[1] = <<Hash(<<Hash(<<leaves[1], leaves[2]>>), leaves[3]>>)>>

\* C6: negative proof. With the injective oracle, for every valid index i the
\* path getProof(i) with exactly one sibling hash replaced by another value,
\* or presented with a leaf hash other than leaf i's, does not validate
\* against the root.
C6_NegativeProof ==
    \A i \in ValidIndices :
        LET path == getProof(levels, i)
            root == getMerkleRoot(levels)
        IN  /\ \A h \in Candidates(levels) \ {Get(leaves, i)} :
                  ~validateProof(path, h, root)
            /\ \A k \in 1..Len(path) :
                  \A h \in Candidates(levels) \ {path[k].hash} :
                      ~validateProof(WithSibling(path, k, h), Get(leaves, i), root)

\* C6 witness: validateProof has returned false for a path with one sibling
\* hash replaced, in a tree of four leaves.
C6_Witness ==
    /\ ret.op = "validateProof"
    /\ ret.args[2] = "sibling"
    /\ ret.value = <<FALSE>>
    /\ Len(leaves) = 4

\* C6 witness for the other case is the same call with another leaf hash
C6_WitnessLeaf ==
    /\ ret.op = "validateProof"
    /\ ret.args[2] = "leaf"
    /\ ret.value = <<FALSE>>
    /\ Len(leaves) = 1

\* C7: getProof with an index outside [0, leafCount) fails explicitly: the
\* call throws, so the outcome cannot be taken for the empty path that
\* getProof(0) returns on a single-leaf tree.
C7_ProofIndexOutOfRange ==
    (ret.op = "getProof" /\ ret.args[1] \notin ValidIndices) => ret.threw

\* the leaves and levels of a tree constructed in one step from items with
\* options.hashLeaves = hashLeaves
Constructed(items, hashLeaves) ==
    LET lf == PushLeaves(<<>>, items, hashLeaves = "true")
    IN  [leaves |-> lf, levels |-> makeTree(lf, <<>>, 0).levels]

\* C9: append equals rebuild. On a tree equal to the one constructed from the
\* items L with options o, appendLeaves(items) leaves the leaves and levels of
\* the tree constructed in one step from L followed by items with options o.
C9_AppendEqualsRebuild ==
    [][(/\ options # "unset"
        /\ leaves = Constructed(raw, options).leaves
        /\ levels = Constructed(raw, options).levels
        /\ ret'.op = "appendLeaves"
        /\ ret'.args = <<"undefined">>)
       => (/\ leaves' = Constructed(raw', options).leaves
           /\ levels' = Constructed(raw', options).levels)]_vars

----------------------------------------------------------------------------
(* src/unnamed/part_003: the power-of-two check and update *)

\* a & b on non-negative integers
RECURSIVE BitAnd(_, _)
BitAnd(a, b) ==
    IF a = 0 \/ b = 0 THEN 0
    ELSE (a % 2) * (b % 2) + 2 * BitAnd(a \div 2, b \div 2)

\* isPow2(x): (x & (x - 1)) === 0; for x = 0 this is 0 & -1, which is 0
isPow2(x) == IF x = 0 THEN TRUE ELSE BitAnd(x, x - 1) = 0

\* a call that threw before it changed anything
Thrown(op, args) ==
    /\ ret' = [op |-> op, args |-> args, threw |-> TRUE, value |-> <<>>]
    /\ UNCHANGED <<leaves, levels, leafRow, options, raw, updates>>

\* new MerkleTree(items, {hashLeaves}) of part_003: no object when it throws
ConstructorSized ==
    /\ NoQuery
    /\ options = "unset"
    /\ \E items \in SeqsUpTo(Items, MaxLeaves), hashLeaves \in {"true", "false"} :
          IF ~isPow2(Len(items))
          THEN Thrown("constructor", <<hashLeaves>>)
          ELSE DoAppend("constructor", items, hashLeaves, hashLeaves)

\* tree.appendLeaves(items, hash) of part_003
AppendLeavesSized ==
    /\ NoQuery
    /\ options # "unset"
    /\ \E items \in SeqsUpTo(Items, MaxAppendSized), hash \in HashArgs :
          /\ Len(raw) + Len(items) <= MaxLeaves
          /\ IF ~isPow2(Len(items))
             THEN Thrown("appendLeaves", <<hash>>)
             ELSE DoAppend("appendLeaves", items, hash, options)

\* the forEach callback of update over the reversed levels lv, at height
\* (0 is the first row visited) with currentLevelIndex and childNodes c0, c1.
\* Poseidon.hash on an undefined child throws and ends the call there.
RECURSIVE UpdateLoop(_, _, _, _, _)
UpdateLoop(lv, height, currentLevelIndex, c0, c1) ==
    LET nextLevelIndex == IF currentLevelIndex % 2 = 0
                          THEN currentLevelIndex \div 2
                          ELSE (currentLevelIndex - 1) \div 2
    IN  IF height >= Len(lv) THEN [levels |-> lv, threw |-> FALSE]
        ELSE IF height = 0 THEN UpdateLoop(lv, 1, nextLevelIndex, c0, c1)
        ELSE IF HashThrows(<<c0, c1>>) THEN [levels |-> lv, threw |-> TRUE]
        ELSE LET level == Put(lv[height + 1], currentLevelIndex, Hash(<<c0, c1>>))
                 lv2 == [lv EXCEPT ![height + 1] = level]
             IN  IF currentLevelIndex % 2 = 0
                 THEN UpdateLoop(lv2, height + 1, nextLevelIndex,
                                 Get(level, currentLevelIndex),
                                 Get(level, currentLevelIndex + 1))
                 ELSE UpdateLoop(lv2, height + 1, nextLevelIndex,
                                 Get(level, currentLevelIndex - 1),
                                 Get(level, currentLevelIndex))

\* update(newLeaf, index, hash) on leaves lf and levels lv whose row `row` is
\* the leaf array: the tree it leaves behind and whether it threw.
\*   - leaves[index] = digest also writes the row of levels that is leaves;
\*   - with no levels, levels[-1][index] = digest throws a TypeError;
\*   - levels.reverse() is in place: a throw inside forEach skips the second
\*     reverse() and leaves the levels leaf row first.
update(lf, lv, row, newLeaf, index, hash) ==
    LET digest == Digest(newLeaf, hash)
        lf1 == Put(lf, index, digest)
    IN  IF Len(lv) = 0
        THEN [leaves |-> lf1, levels |-> lv, leafRow |-> row, threw |-> TRUE]
        ELSE LET last == Len(lv)
                 lv1 == [lv EXCEPT ![row] = lf1]
                 lv2 == [lv1 EXCEPT ![last] = Put(lv1[last], index, digest)]
                 c0 == IF index % 2 = 0 THEN Get(lv2[last], index)
                                        ELSE Get(lv2[last], index - 1)
                 c1 == IF index % 2 = 0 THEN Get(lv2[last], index + 1)
                                        ELSE Get(lv2[last], index)
                 r == UpdateLoop(Reverse(lv2), 0, index, c0, c1)
                 rrow == last + 1 - row
             IN  IF r.threw
                 THEN [leaves |-> r.levels[rrow], levels |-> r.levels,
                       leafRow |-> rrow, threw |-> TRUE]
                 ELSE [leaves |-> r.levels[rrow], levels |-> Reverse(r.levels),
                       leafRow |-> row, threw |-> FALSE]

\* tree.update(newLeaf, index, hash) of part_003. The index runs from -1 to
\* two past the last leaf. update(x, -1) sets the property "-1" of the leaf
\* array, which the same call reads back as childNodes[1]; childNodes[0], the
\* element at -2, is undefined, so the first hash throws whatever it holds.
Update ==
    /\ NoQuery
    /\ options # "unset"
    /\ updates < MaxUpdates
    /\ \E newLeaf \in Items, index \in -1..(Len(leaves) + 1), hash \in HashArgs :
          LET u == update(leaves, levels, leafRow, newLeaf, index, HashParam(hash))
          IN  /\ leaves' = u.leaves
              /\ levels' = u.levels
              /\ leafRow' = u.leafRow
              /\ updates' = updates + 1
              /\ ret' = [op |-> "update", args |-> <<newLeaf, index, hash>>,
                         threw |-> u.threw, value |-> <<>>]
              /\ UNCHANGED <<options, raw>>

NextSized ==
    \/ ConstructorSized
    \/ AppendLeavesSized
    \/ Update
    \/ GetMerkleRoot

SpecSized == Init /\ [][NextSized]_vars

----------------------------------------------------------------------------
(* Claims on src/unnamed/part_003 (SpecSized) *)

\* the arguments of the update call that ret' records
UpdateIndex == ret'.args[2]

UpdateDigest == Digest(ret'.args[1], HashParam(ret'.args[3]))

\* C2: incremental equals rebuild. update(newLeaf, i) with 0 <= i < n on a
\* tree of n >= 1 leaves completes and leaves exactly the leaves and levels
\* that makeTree builds from the leaf sequence with leaf i replaced by the
\* new digest.
C2_IncrementalEqualsRebuild ==
    [][(ret'.op = "update" /\ Len(leaves) >= 1 /\ UpdateIndex \in ValidIndices)
       => LET lf == Put(leaves, UpdateIndex, UpdateDigest)
          IN  /\ ~ret'.threw
              /\ leaves' = lf
              /\ levels' = makeTree(lf, <<>>, 0).levels]_vars

\* the shape of a non-empty tree: one root, the last level is leaves, every
\* level has ceil(half) as many nodes as the level below
LevelShape(lf, lv) ==
    Len(lf) > 0 =>
        /\ Len(lv) > 0
        /\ Len(lv[1]) = 1
        /\ lv[Len(lv)] = lf
        /\ \A k \in 1..(Len(lv) - 1) : Len(lv[k]) = (Len(lv[k + 1]) + 1) \div 2

\* C4: level shape. Construction, appendLeaves and update with an index in
\* range keep the shape: from a tree that has it they lead to a tree that
\* has it.
C4_LevelShape ==
    [][(/\ LevelShape(leaves, levels)
        /\ \/ ret'.op \in {"constructor", "appendLeaves"}
           \/ ret'.op = "update" /\ UpdateIndex \in ValidIndices)
       => LevelShape(leaves', levels')]_vars

\* C5: empty-tree invariant. levels is empty exactly when leaves is empty,
\* and getMerkleRoot returns undefined exactly when there are no leaves.
C5_EmptyTree ==
    /\ Len(levels) = 0 <=> Len(leaves) = 0
    /\ getMerkleRoot(levels) = Undef <=> Len(leaves) = 0

\* C8: update with an index outside [0, leafCount) fails and writes nothing.
C8_UpdateIndexOutOfRange ==
    [][(ret'.op = "update" /\ UpdateIndex \notin ValidIndices)
       => (ret'.threw /\ leaves' = leaves /\ levels' = levels)]_vars

\* a leaf count the power-of-two version allows: 2^n, or none at all
RECURSIVE PowerOfTwo(_)
PowerOfTwo(n) == n = 1 \/ (n > 1 /\ n % 2 = 0 /\ PowerOfTwo(n \div 2))

\* C10: power of two. After any sequence of construction and appendLeaves
\* calls the tree holds a power-of-two number of leaves (an empty tree is let
\* pass): a call that would make any other count throws and changes nothing.
C10_PowerOfTwo ==
    [][(updates = 0 /\ ret'.op \in {"constructor", "appendLeaves"})
       => (Len(leaves') = 0 \/ PowerOfTwo(Len(leaves')))]_vars

----------------------------------------------------------------------------
(* The static validateProof on paths of the caller's making (SpecVerify) *)

\* longest path a caller presents
MaxPath == 3

\* direction values of a path element; 2 is the padding value
Directions == {F(0), F(1), F(2)}

PathElements == [direction : Directions, hash : Items]

\* one round of the loop of validateProof of src/unnamed/part_004, where
\* direction 0 puts the sibling on the left
TargetStep(el, proofHash) ==
    LET p1 == IF el.direction = F(0) THEN Hash(<<el.hash, proofHash>>) ELSE proofHash
    IN  IF el.direction = F(1) THEN Hash(<<p1, el.hash>>) ELSE p1

RECURSIVE TargetHash(_, _, _)
TargetHash(merklePath, x, proofHash) ==
    IF x > Len(merklePath) THEN proofHash
    ELSE TargetHash(merklePath, x + 1, TargetStep(merklePath[x], proofHash))

\* validateProof(merklePath, targetHash, merkleRoot) of src/unnamed/part_004
validateProofTarget(merklePath, targetHash, merkleRoot) ==
    IF Len(merklePath) = 0
    THEN targetHash = merkleRoot
    ELSE TargetHash(merklePath, 1, targetHash) = merkleRoot

\* The reference fold: acc starts as the leaf hash; an element whose
\* direction is left gives oracle(sibling, acc), one whose direction is the
\* other of 0 and 1 gives oracle(acc, sibling), any other element is passed.
RECURSIVE RefFold(_, _, _)
RefFold(path, acc, left) ==
    IF path = <<>> THEN acc
    ELSE LET el == Head(path)
         IN  RefFold(Tail(path),
                     CASE el.direction = left -> Hash(<<el.hash, acc>>)
                       [] el.direction \in {F(0), F(1)} \ {left} -> Hash(<<acc, el.hash>>)
                       [] OTHER -> acc,
                     left)

\* a caller holds a path, a leaf hash and a claimed root; no tree is built
InitVerify ==
    /\ leaves = <<>>
    /\ levels = <<>>
    /\ leafRow = 0
    /\ options = "unset"
    /\ raw = <<>>
    /\ updates = 0
    /\ \E p \in SeqsUpTo(PathElements, MaxPath), l \in Items :
          \E r \in Items \cup {RefFold(p, l, F(1)), RefFold(p, l, F(0))} :
             ret = [op |-> "none", args |-> <<p, l, r>>,
                    threw |-> FALSE, value |-> <<>>]

\* MerkleTree.validateProof(path, leafHash, root) of src/src/MerkleTree.ts
ValidateProofStatic ==
    /\ ret.op = "none"
    /\ LET p == ret.args[1]
           l == ret.args[2]
           r == ret.args[3]
       IN  ret' = [op |-> "validateProofStatic", args |-> ret.args,
                   threw |-> validateProofThrows(p, l, r),
                   value |-> IF validateProofThrows(p, l, r) THEN <<>>
                             ELSE <<validateProof(p, l, r)>>]
    /\ UNCHANGED <<leaves, levels, leafRow, options, raw, updates>>

\* MerkleTree.validateProof(path, targetHash, root) of src/unnamed/part_004
ValidateProofTarget ==
    /\ ret.op = "none"
    /\ LET p == ret.args[1]
           l == ret.args[2]
           r == ret.args[3]
       IN  ret' = [op |-> "validateProofTarget", args |-> ret.args,
                   threw |-> validateProofThrows(p, l, r),
                   value |-> IF validateProofThrows(p, l, r) THEN <<>>
                             ELSE <<validateProofTarget(p, l, r)>>]
    /\ UNCHANGED <<leaves, levels, leafRow, options, raw, updates>>

NextVerify == ValidateProofStatic \/ ValidateProofTarget

SpecVerify == InitVerify /\ [][NextVerify]_vars

----------------------------------------------------------------------------
(* Claims on the static validateProof (SpecVerify) *)

\* every direction of the path is 0 or 1
LeftRight(path) == \A x \in 1..Len(path) : path[x].direction \in {F(0), F(1)}

\* C11: validateProof is the reference fold. For every path whose directions
\* are left/right, every leaf hash and every claimed root, validateProof
\* returns whether the fold (oracle(sibling, acc) for a sibling on the left,
\* oracle(acc, sibling) otherwise) ends at the claimed root; an empty path is
\* valid exactly when leaf hash and root are equal; the call does not throw
\* and no tree exists.  Direction 1 is left in src/src/MerkleTree.ts and
\* direction 0 is left in src/unnamed/part_004.
C11_ReferenceFold ==
    LET p == ret.args[1]
        l == ret.args[2]
        r == ret.args[3]
    IN  /\ (ret.op = "validateProofStatic" /\ LeftRight(p)) =>
              /\ ~ret.threw
              /\ ret.value = <<RefFold(p, l, F(1)) = r>>
              /\ p = <<>> => ret.value = <<l = r>>
        /\ (ret.op = "validateProofTarget" /\ LeftRight(p)) =>
              /\ ~ret.threw
              /\ ret.value = <<RefFold(p, l, F(0)) = r>>
              /\ p = <<>> => ret.value = <<l = r>>
        /\ leaves = <<>> /\ levels = <<>>

\* C11 witness: validateProof has returned true on a path of two elements,
\* one with the sibling on the right and one with the sibling on the left.
C11_Witness ==
    /\ ret.op = "validateProofStatic"
    /\ Len(ret.args[1]) = 2
    /\ ret.args[1][1].direction = F(0)
    /\ ret.args[1][2].direction = F(1)
    /\ ret.value = <<TRUE>>

\* path elements with the padding direction
Padding == {el \in PathElements : el.direction \notin {F(0), F(1)}}

\* path with el inserted after its first k elements
InsertAt(path, k, el) ==
    SubSeq(path, 1, k) \o <<el>> \o SubSeq(path, k + 1, Len(path))

\* C15: padding is a no-op. An element whose direction is neither 0 nor 1
\* leaves the accumulator as it is, so a path with such an element inserted
\* at any place (in a path that may hold padding already) gets the result of
\* the path without it, for every leaf hash and root.
C15_PaddingNoOp ==
    ret.op = "validateProofStatic" =>
        LET p == ret.args[1]
            l == ret.args[2]
            r == ret.args[3]
        IN  \A k \in 0..Len(p), el \in Padding :
               /\ ProofStep(el, l) = l
               /\ ~validateProofThrows(InsertAt(p, k, el), l, r)
               /\ <<validateProof(InsertAt(p, k, el), l, r)>> = ret.value

\* C15 witness: validateProof has returned true on a path of three elements
\* whose middle element is padding.
C15_Witness ==
    /\ ret.op = "validateProofStatic"
    /\ Len(ret.args[1]) = 3
    /\ ret.args[1][1].direction = F(0)
    /\ ret.args[1][2].direction = F(2)
    /\ ret.args[1][3].direction = F(1)
    /\ ret.value = <<TRUE>>

----------------------------------------------------------------------------
(* Claims on getProof of src/src/MerkleTree.ts (Spec) *)

\* ceil(log2(n)) for n >= 1
RECURSIVE CeilLog2(_)
CeilLog2(n) == IF n <= 1 THEN 0 ELSE 1 + CeilLog2((n + 1) \div 2)

\* n = 2^k for some k >= 0
RECURSIVE IsPowerOfTwo(_)
IsPowerOfTwo(n) == n = 1 \/ (n > 1 /\ n % 2 = 0 /\ IsPowerOfTwo(n \div 2))

\* log2(n) of a power of two
RECURSIVE Log2(_)
Log2(n) == IF n <= 1 THEN 0 ELSE 1 + Log2(n \div 2)

\* C12: proof length. In every tree of n >= 1 leaves and for every valid
\* index i, getProof(i) has at most ceil(log2(n)) elements: none when n = 1,
\* and exactly log2(n) for every leaf when n is a power of two.
C12_ProofLength ==
    LET n == Len(leaves)
    IN  n >= 1 =>
           \A i \in ValidIndices :
              LET length == Len(getProof(levels, i))
              IN  /\ length <= CeilLog2(n)
                  /\ n = 1 => length = 0
                  /\ IsPowerOfTwo(n) => length = Log2(n)

\* C12 witness: getProof has returned two elements for the last leaf of a
\* tree of four.
C12_Witness ==
    /\ ret.op = "getProof"
    /\ Len(leaves) = 4
    /\ ret.args = <<3>>
    /\ Len(ret.value) = 2

\* index, in row x of lv (row 1 is the root), of the ancestor of leaf i
Ancestor(lv, x, i) == i \div (2 ^ (Len(lv) - x))

\* the ancestor of leaf i in row x is the last node of an odd row
PromotedAt(lv, x, i) ==
    /\ Ancestor(lv, x, i) = Len(lv[x]) - 1
    /\ Len(lv[x]) % 2 = 1

\* the rows below the root at which the ancestor of leaf i is promoted
Promotions(lv, i) == {x \in 2..Len(lv) : PromotedAt(lv, x, i)}

SiblingOf(idx) == IF idx % 2 = 0 THEN idx + 1 ELSE idx - 1

\* the element the claim has getProof emit at a row x where leaf i is not
\* promoted
Emitted(lv, x, i) ==
    LET idx == Ancestor(lv, x, i)
    IN  [direction |-> IF idx % 2 = 0 THEN F(0) ELSE F(1),
         hash |-> Get(lv[x], SiblingOf(idx))]

\* the rows from the leaf row up to the row below the root
RowsUp(lv) == [d \in 1..(Len(lv) - 1) |-> Len(lv) + 1 - d]

\* the path of leaf i by the claim: one element per row where it is not
\* promoted, leaf row first
EmittedPath(lv, i) ==
    LET kept == SelectSeq(RowsUp(lv), LAMBDA x : ~PromotedAt(lv, x, i))
    IN  [k \in 1..Len(kept) |-> Emitted(lv, kept[k], i)]

\* C14: sibling selection and direction encoding. At every row where leaf i
\* is not promoted getProof emits the hash at idx + 1 with direction 0 when
\* the current index idx is even and the hash at idx - 1 with direction 1
\* when it is odd; that sibling index lies inside the row; the index of the
\* next row is idx halved.
C14_SiblingSelection ==
    \A i \in ValidIndices :
        /\ getProof(levels, i) = EmittedPath(levels, i)
        /\ \A x \in 2..Len(levels) :
              ~PromotedAt(levels, x, i) =>
                  SiblingOf(Ancestor(levels, x, i)) \in 0..(Len(levels[x]) - 1)

\* C14 witness: getProof(2) on a tree of four leaves has returned a right
\* sibling (direction 0) and then a left sibling (direction 1).
C14_Witness ==
    /\ ret.op = "getProof"
    /\ Len(leaves) = 4
    /\ ret.args = <<2>>
    /\ Len(ret.value) = 2
    /\ ret.value[1] = [direction |-> F(0), hash |-> Get(leaves, 3)]
    /\ ret.value[2].direction = F(1)
    /\ ret.value[2].hash = Get(levels[2], 0)

\* paths of at most one element a caller can make of 0/1 directions and the
\* hashes stored in the tree
ShortPaths(lv) == SeqsUpTo([direction : {F(0), F(1)}, hash : Nodes(lv)], 1)

\* C18: proof soundness. In a tree of at least two leaves, for every value h
\* and every path p with directions in {0, 1}, validateProof(p, h,
\* getMerkleRoot()) returns true only if h is the hash of one of the leaves.
C18_ProofSoundness ==
    Len(leaves) >= 2 =>
        \A h \in Candidates(levels), p \in ShortPaths(levels) :
            (/\ ~validateProofThrows(p, h, getMerkleRoot(levels))
             /\ validateProof(p, h, getMerkleRoot(levels)))
            => \E i \in ValidIndices : h = Get(leaves, i)

----------------------------------------------------------------------------
(* Claims on update of src/unnamed/part_003 (SpecSized) *)

\* C16: update frame. update(newLeaf, i) with a valid index changes only
\* leaves[i] and the entries of the levels on the ancestor chain of leaf i:
\* the number of levels, the length of each level and every entry off the
\* chain are as before the call, so the levels are still root first.
C16_UpdateFrame ==
    [][(ret'.op = "update" /\ UpdateIndex \in ValidIndices)
       => /\ Len(leaves') = Len(leaves)
          /\ \A j \in ValidIndices \ {UpdateIndex} :
                Get(leaves', j) = Get(leaves, j)
          /\ Len(levels') = Len(levels)
          /\ \A k \in 1..Len(levels) :
                /\ Len(levels'[k]) = Len(levels[k])
                /\ \A j \in 0..(Len(levels[k]) - 1) :
                      j # Ancestor(levels, k, UpdateIndex)
                          => Get(levels'[k], j) = Get(levels[k], j)]_vars

\* C17: failed update is atomic. An update call that throws leaves leaves and
\* levels exactly as they were before the call (levels root first, leaf
\* count unchanged), so getMerkleRoot returns what it returned before.
C17_FailedUpdateAtomic ==
    [][(ret'.op = "update" /\ ret'.threw)
       => /\ leaves' = leaves
          /\ levels' = levels
          /\ getMerkleRoot(levels') = getMerkleRoot(levels)]_vars

====
